---- MODULE Spec2Model ----
(***************************************************************************)
(* Model of main.py: the ZapSign webhook that looks the signer up in       *)
(* Notion and sends a WhatsApp text through Z-API.                         *)
(*                                                                         *)
(* Text is a sequence of one-character strings, so that strip, split,      *)
(* lower and re.sub are computed.  A JSON document is a tagged value       *)
(* [t |-> "str" | "num" | "null" | "list" | "obj", v |-> ...]; an object's *)
(* v is a function from the keys that are present to their values.  A raw  *)
(* body is [utf8, syntax, doc]: whether the bytes decode as UTF-8, whether *)
(* they are well-formed JSON, and the document they denote.                *)
(***************************************************************************)
EXTENDS Integers, Sequences, FiniteSets, TLC

VARIABLES settings, pc, request, accepted, data, frame, calls, raised, response

vars == <<settings, pc, request, accepted, data, frame, calls, raised, response>>

(***************************** bounds **************************************)
\* webhook deliveries handled concurrently
NumDeliveries == 2

\* longest "results" array a database query returns
MaxResults == 2

(***************************** text ****************************************)
Whitespace == {" ", "\t", "\n"}

AsciiDigits == {"0", "1", "2", "3", "4", "5", "6", "7", "8", "9"}

\* what \d matches in a str pattern: every Unicode decimal digit, of which
\* "<0663>" (ARABIC-INDIC DIGIT THREE) stands for those outside ASCII
DecimalDigits == AsciiDigits \cup {"<0663>"}

UpperToLower ==
    [c \in {"A", "B", "C", "E", "L", "M", "N", "O", "P", "T", "X"} |->
        CASE c = "A" -> "a" [] c = "B" -> "b" [] c = "C" -> "c"
          [] c = "E" -> "e" [] c = "L" -> "l" [] c = "M" -> "m"
          [] c = "N" -> "n" [] c = "O" -> "o" [] c = "P" -> "p"
          [] c = "T" -> "t" [] c = "X" -> "x"]

\* str.lower()
lower(s) ==
    [k \in 1..Len(s) |->
        IF s[k] \in DOMAIN UpperToLower THEN UpperToLower[s[k]] ELSE s[k]]

RECURSIVE lstrip(_)
lstrip(s) ==
    IF s # <<>> /\ Head(s) \in Whitespace THEN lstrip(Tail(s)) ELSE s

RECURSIVE rstrip(_)
rstrip(s) ==
    IF s # <<>> /\ s[Len(s)] \in Whitespace
    THEN rstrip(SubSeq(s, 1, Len(s) - 1))
    ELSE s

\* str.strip()
strip(s) == rstrip(lstrip(s))

\* str.split(): the maximal runs of non-whitespace characters, in order
RECURSIVE splitFrom(_, _, _)
splitFrom(s, word, acc) ==
    IF s = <<>>
    THEN IF word = <<>> THEN acc ELSE Append(acc, word)
    ELSE IF Head(s) \in Whitespace
         THEN splitFrom(Tail(s), <<>>,
                        IF word = <<>> THEN acc ELSE Append(acc, word))
         ELSE splitFrom(Tail(s), Append(word, Head(s)), acc)

split(s) == splitFrom(s, <<>>, <<>>)

\* re.sub(r"[^\d+]", "", s): the leading "+" of E.164 is kept
RECURSIVE re_sub_keep_plus(_)
re_sub_keep_plus(s) ==
    IF s = <<>> THEN <<>>
    ELSE IF Head(s) \in DecimalDigits \cup {"+"}
         THEN <<Head(s)>> \o re_sub_keep_plus(Tail(s))
         ELSE re_sub_keep_plus(Tail(s))

\* re.sub(r"\D", "", s)
RECURSIVE re_sub_nondigits(_)
re_sub_nondigits(s) ==
    IF s = <<>> THEN <<>>
    ELSE IF Head(s) \in DecimalDigits
         THEN <<Head(s)>> \o re_sub_nondigits(Tail(s))
         ELSE re_sub_nondigits(Tail(s))

(***************************** JSON ****************************************)
JStr(s)  == [t |-> "str", v |-> s]
JNum(n)  == [t |-> "num", v |-> n]
JNull    == [t |-> "null"]
JList(l) == [t |-> "list", v |-> l]
JObj(f)  == [t |-> "obj", v |-> f]

Has(o, k)   == o.t = "obj" /\ k \in DOMAIN o.v
IsStr(o, k) == Has(o, k) /\ o.v[k].t = "str"
IsInt(o, k) == Has(o, k) /\ o.v[k].t = "num"
\* Optional[str] = None: absent, null or a string
IsOptStr(o, k) == Has(o, k) => o.v[k].t \in {"null", "str"}

(***************************** Pydantic models ****************************)
\* Python's None, and a value that is not None
None == [none |-> TRUE]

Some(x) == [none |-> FALSE, v |-> x]

ResendAttempts_valid(o) ==
    /\ o.t = "obj"
    /\ \A k \in {"whatsapp", "email", "sms"} : IsInt(o, k)

Signer_valid(o) ==
    /\ o.t = "obj"
    /\ \A k \in {"token", "status", "name", "email",
                 "phone_country", "phone_number"} : IsStr(o, k)
    /\ IsInt(o, "times_viewed")
    /\ IsOptStr(o, "signed_at")
    /\ Has(o, "resend_attempts")
    /\ ResendAttempts_valid(o.v["resend_attempts"])

Answer_valid(o) ==
    /\ o.t = "obj"
    /\ IsStr(o, "variable")
    /\ IsStr(o, "value")

WebhookPayload_valid(o) ==
    /\ o.t = "obj"
    /\ \A k \in {"event_type", "status", "name", "token"} : IsStr(o, k)
    /\ Has(o, "signers")
    /\ o.v["signers"].t = "list"
    /\ \A k \in DOMAIN o.v["signers"].v : Signer_valid(o.v["signers"].v[k])
    /\ Has(o, "answers") =>
          \/ o.v["answers"].t = "null"
          \/ /\ o.v["answers"].t = "list"
             /\ \A k \in DOMAIN o.v["answers"].v :
                    Answer_valid(o.v["answers"].v[k])
    /\ Has(o, "signer_who_signed")
    /\ Signer_valid(o.v["signer_who_signed"])

Signer(o) ==
    [token         |-> o.v["token"].v,
     status        |-> o.v["status"].v,
     name          |-> o.v["name"].v,
     email         |-> o.v["email"].v,
     phone_country |-> o.v["phone_country"].v,
     phone_number  |-> o.v["phone_number"].v]

Answer(o) == [variable |-> o.v["variable"].v, value |-> o.v["value"].v]

\* answers: List[Answer] = [] with null read as the default
WebhookPayload_null_as_empty(o) ==
    [event_type |-> o.v["event_type"].v,
     status     |-> o.v["status"].v,
     name       |-> o.v["name"].v,
     token      |-> o.v["token"].v,
     signers    |-> [k \in DOMAIN o.v["signers"].v |->
                        Signer(o.v["signers"].v[k])],
     answers    |->
        IF ~Has(o, "answers") \/ o.v["answers"].t = "null" THEN Some(<<>>)
        ELSE Some([k \in DOMAIN o.v["answers"].v |->
                      Answer(o.v["answers"].v[k])]),
     signer_who_signed |-> Signer(o.v["signer_who_signed"])]

\* answers: Optional[List[Answer]] = []  -- absent gives [], null gives None
WebhookPayload(o) ==
    [event_type |-> o.v["event_type"].v,
     status     |-> o.v["status"].v,
     name       |-> o.v["name"].v,
     token      |-> o.v["token"].v,
     signers    |-> [k \in DOMAIN o.v["signers"].v |->
                        Signer(o.v["signers"].v[k])],
     answers    |->
        IF ~Has(o, "answers") THEN Some(<<>>)
        ELSE IF o.v["answers"].t = "null" THEN None
        ELSE Some([k \in DOMAIN o.v["answers"].v |->
                      Answer(o.v["answers"].v[k])]),
     signer_who_signed |-> Signer(o.v["signer_who_signed"])]

\* WebhookPayload.model_validate_json(raw): the payload, or a ValidationError
model_validate_json(raw) ==
    IF ~raw.utf8 \/ raw.syntax # "json"
    THEN [ok |-> FALSE, error |-> "Invalid JSON"]
    ELSE IF ~WebhookPayload_valid(raw.doc)
         THEN [ok |-> FALSE, error |-> "validation error"]
         ELSE [ok |-> TRUE, value |-> WebhookPayload(raw.doc)]

(***************************** signature **********************************)
(* A header value is text: either plain characters, or the hexadecimal    *)
(* rendering of an HMAC-SHA256 tag.  The tag is a symbolic term over its   *)
(* key and message: two tags are equal exactly when key and message are,   *)
(* and no plain text of the model equals a rendered tag.                   *)
Plain(chars) == [kind |-> "plain", chars |-> chars]

NonAscii == {"<e9>"}

\* hmac.new(key, msg, hashlib.sha256)
hmac_new(key, msg) == [key |-> key, msg |-> msg]

\* HMAC.hexdigest(): lowercase hexadecimal
hexdigest(h) == [kind |-> "hex", tag |-> h, upper |-> FALSE]

\* the same digits in upper case
HexUpper(h) == [kind |-> "hex", tag |-> h, upper |-> TRUE]

isascii(text) ==
    text.kind = "plain" => \A k \in DOMAIN text.chars : text.chars[k] \notin NonAscii

\* hmac.compare_digest(a, b) on two str: TypeError unless both are ASCII
compare_digest(a, b) ==
    IF ~isascii(a) \/ ~isascii(b)
    THEN [raised |-> TRUE, exc |-> "TypeError"]
    ELSE [raised |-> FALSE, value |-> (a = b)]

\* Python truthiness of an Optional[str]: None and "" are falsy
Falsy(x) == x.none \/ x.v = Plain(<<>>)

\* verify_signature that accepts a missing header only while no secret is set
verify_signature_strict(body, header) ==
    IF Falsy(settings.ZAPSIGN_HMAC_SECRET)
    THEN [raised |-> FALSE, value |-> TRUE]
    ELSE IF Falsy(header)
         THEN [raised |-> FALSE, value |-> FALSE]
         ELSE compare_digest(
                  hexdigest(hmac_new(settings.ZAPSIGN_HMAC_SECRET.v, body)),
                  header.v)

\* verify_signature(body, header), reading settings.ZAPSIGN_HMAC_SECRET
verify_signature(body, header) ==
    IF Falsy(settings.ZAPSIGN_HMAC_SECRET) \/ Falsy(header)
    THEN [raised |-> FALSE, value |-> TRUE]
    ELSE compare_digest(
             hexdigest(hmac_new(settings.ZAPSIGN_HMAC_SECRET.v, body)),
             header.v)

(***************************** inputs *************************************)
signed  == <<"s", "i", "g", "n", "e", "d">>

pending == <<"p", "e", "n", "d", "i", "n", "g">>

nome_completo == <<"n", "o", "m", "e", " ", "c", "o", "m", "p", "l", "e", "t", "o">>

Nome_completo == <<"N", "o", "m", "e", " ", "c", "o", "m", "p", "l", "e", "t", "o">>

NOME_COMPLETO == <<"N", "O", "M", "E", " ", "C", "O", "M", "P", "L", "E", "T", "O">>

Names ==
    { <<"A", "n", "a">>,
      <<"A", "n", "a", " ", "L", "i", "m", "a">>,
      <<" ", "B", "i", "a", "\t", "P", " ">>,
      <<" ", "\n">>,
      <<>> }

Emails == { <<"A", "n", "a", "@", "X", ".", "c", "o">>, <<"b", "@", "x">> }

ShortPhone ==
    [country |-> <<"+", "5", "5">>,
     number  |-> <<"(", "1", "1", ")", " ", "9", "-", "8">>]

\* "+55 (11) 91234-5678"
FormattedPhone ==
    [country |-> <<"+", "5", "5">>,
     number  |-> <<" ", "(", "1", "1", ")", " ", "9", "1", "2", "3", "4", "-",
                   "5", "6", "7", "8">>]

\* "5511912345678"
DigitsPhone ==
    [country |-> <<"5", "5">>,
     number  |-> <<"1", "1", "9", "1", "2", "3", "4", "5", "6", "7", "8">>]

\* a number typed with a digit outside ASCII, and one without any digit
Phones ==
    { ShortPhone, FormattedPhone, DigitsPhone,
      [country |-> <<"+", "5", "5">>, number |-> <<"1", "<0663>", ".", "9">>],
      [country |-> <<"+">>, number |-> <<"n", "/", "a">>] }

AnswerDoc(variable, value) ==
    JObj([variable |-> JStr(variable), value |-> JStr(value)])

\* the "answers" member: left out, null, or an array
AnswersDocs ==
    { [present |-> FALSE],
      [present |-> TRUE, doc |-> JNull],
      [present |-> TRUE, doc |-> JList(<<>>)],
      [present |-> TRUE,
       doc |-> JList(<<AnswerDoc(Nome_completo, <<"E", "v", "a">>)>>)],
      [present |-> TRUE,
       doc |-> JList(<<AnswerDoc(NOME_COMPLETO, <<>>)>>)],
      [present |-> TRUE,
       doc |-> JList(<<AnswerDoc(<<"n", "o", "m", "e">>, <<"L", "i", "a">>)>>)],
      [present |-> TRUE,
       doc |-> JList(<<AnswerDoc(<<"C", "P", "F">>, <<"1">>),
                       AnswerDoc(nome_completo, <<"L", "i", "a">>),
                       AnswerDoc(Nome_completo, <<"E", "v", "a">>)>>)] }

ResendAttemptsDoc ==
    JObj([whatsapp |-> JNum(0), email |-> JNum(1), sms |-> JNum(0)])

SignerDoc(name, email, phone) ==
    JObj([token           |-> JStr(<<"t">>),
          status          |-> JStr(signed),
          name            |-> JStr(name),
          email           |-> JStr(email),
          phone_country   |-> JStr(phone.country),
          phone_number    |-> JStr(phone.number),
          times_viewed    |-> JNum(1),
          signed_at       |-> JNull,
          resend_attempts |-> ResendAttemptsDoc])

PayloadDoc(st, signer, answers) ==
    LET base == [event_type        |-> JStr(<<"d", "o", "c">>),
                 status            |-> JStr(st),
                 name              |-> JStr(<<"p", "d", "f">>),
                 token             |-> JStr(<<"t">>),
                 signers           |-> JList(<<signer>>),
                 signer_who_signed |-> signer]
    IN  JObj(IF answers.present
             THEN base @@ [answers |-> answers.doc]
             ELSE base)

\* every name, email and answers with one phone; every phone with one signer
ValidDocs ==
    { PayloadDoc(st, SignerDoc(n, e, ShortPhone), a) :
        st \in {signed, pending}, n \in Names, e \in Emails, a \in AnswersDocs }
    \cup { PayloadDoc(signed, SignerDoc(<<"A", "n", "a">>, <<"b", "@", "x">>, p),
                      [present |-> FALSE]) : p \in Phones }

\* a member d.v[k] removed
Without(d, k) == JObj([x \in DOMAIN d.v \ {k} |-> d.v[x]])

\* a member d.v[k] replaced
With(d, k, val) == JObj([x \in DOMAIN d.v |-> IF x = k THEN val ELSE d.v[x]])

SampleSigner ==
    SignerDoc(<<"A", "n", "a">>, <<"b", "@", "x">>, ShortPhone)

SampleDoc(st) == PayloadDoc(st, SampleSigner, [present |-> FALSE])

\* well-formed JSON that is not a WebhookPayload
InvalidDocs ==
    UNION { { Without(SampleDoc(st), "signer_who_signed"),
              Without(SampleDoc(st), "status"),
              With(SampleDoc(st), "token", JNum(7)),
              With(SampleDoc(st), "signer_who_signed",
                   Without(SampleSigner, "name")),
              With(SampleDoc(st), "signer_who_signed",
                   With(SampleSigner, "times_viewed", JStr(<<"x">>))),
              With(SampleDoc(st), "signers", JNull),
              JObj(SampleDoc(st).v @@ [answers |-> JStr(<<"x">>)]),
              JObj(SampleDoc(st).v @@
                   [answers |-> JList(<<JObj([variable |-> JStr(<<"k">>)])>>)])
            } : st \in {signed, pending} }
      \cup { JList(<<>>), JNull }

\* request bodies: UTF-8 JSON, UTF-8 text that is not JSON, not UTF-8
Bodies ==
    { [utf8 |-> TRUE, syntax |-> "json", doc |-> d] :
        d \in ValidDocs \cup InvalidDocs }
    \cup { [utf8 |-> TRUE,  syntax |-> "malformed", doc |-> JNull],
           [utf8 |-> FALSE, syntax |-> "malformed", doc |-> JNull] }

Keys == { Plain(<<"k", "1">>), Plain(<<"k", "2">>) }

\* settings.ZAPSIGN_HMAC_SECRET: str | None = None
Secrets == { None, Some(Plain(<<>>)) } \cup { Some(k) : k \in Keys }

OtherBody == [utf8 |-> TRUE, syntax |-> "json", doc |-> SampleDoc(signed)]

\* request.headers.get("X-Hub-Signature-256") for a request carrying raw
Headers(raw) ==
    { None, Some(Plain(<<>>)), Some(Plain(<<"x">>)), Some(Plain(<<"<e9>">>)) }
    \cup { Some(hexdigest(hmac_new(k, raw))) : k \in Keys }
    \cup { Some(HexUpper(hmac_new(k, raw))) : k \in Keys }
    \cup { Some(hexdigest(hmac_new(k, OtherBody))) : k \in Keys }

(***************************** outbound replies ***************************)
StatusCodes == {200, 404, 500}

\* httpx.Response.is_success
is_success(code) == code \in 200..299

\* the "results" arrays of a query reply
Results == { [k \in 1..n |-> [id |-> k]] : n \in 0..MaxResults }

Timeout == [kind |-> "timeout"]

\* what the Notion query endpoint may answer within or after timeout=10
NotionReplies ==
    { [kind |-> "response", status_code |-> 200, results |-> r] : r \in Results }
    \cup { [kind |-> "response", status_code |-> c, results |-> <<>>] :
             c \in StatusCodes \ {200} }
    \cup { Timeout }

\* what the Z-API send-message endpoint may answer
ZapiReplies ==
    { [kind |-> "response", status_code |-> c] : c \in StatusCodes }
    \cup { Timeout }

\* raise_for_status that lets client errors (4xx) through
raise_for_status_5xx(reply) ==
    IF reply.kind = "timeout" THEN Some("TimeoutException")
    ELSE IF reply.status_code >= 500 THEN Some("HTTPStatusError")
    ELSE None

\* the exception cli.post / r.raise_for_status() raise for a reply, if any
raise_for_status(reply) ==
    IF reply.kind = "timeout" THEN Some("TimeoutException")
    ELSE IF ~is_success(reply.status_code) THEN Some("HTTPStatusError")
    ELSE None

(***************************** message text *******************************)
\* a message is the sequence of its pieces: fixed text and substituted text
Lit(name) == [lit |-> name]

Txt(chars) == [txt |-> chars]

sua_filha == <<"s", "u", "a", " ", "f", "i", "l", "h", "a">>

\* the mapping keyed by a.variable as written, without lower()
answers_dict_cased(answers) ==
    [k \in { answers[j].variable : j \in DOMAIN answers } |->
        LET last == CHOOSE j \in DOMAIN answers :
                        /\ answers[j].variable = k
                        /\ \A m \in DOMAIN answers :
                               answers[m].variable = k => m <= j
        IN  answers[last].value]

\* {a.variable.lower(): a.value for a in answers}: the last entry of a key wins
answers_dict(answers) ==
    [k \in { lower(answers[j].variable) : j \in DOMAIN answers } |->
        LET last == CHOOSE j \in DOMAIN answers :
                        /\ lower(answers[j].variable) = k
                        /\ \A m \in DOMAIN answers :
                               lower(answers[m].variable) = k => m <= j
        IN  answers[last].value]

\* dict.get(key, default)
dict_get(d, key, default) == IF key \in DOMAIN d THEN d[key] ELSE default

existing_msg(first) ==
    << Lit("Ola "), Txt(first),
       Lit(", parabens pela escolha de continuar seus estudos. ... Rumo a fluencia!") >>

welcome_msg(first, nome_filho, email) ==
    << Lit("Welcome "), Txt(first),
       Lit("! Parabens pela excelente decisao para "), Txt(nome_filho),
       Lit("! Tenho certeza ... Sou Marcello ... Vi que o e-mail cadastrado e "),
       Txt(email),
       Lit(". Voce deseja usa-lo para tudo ou prefere trocar? ... plataformas.") >>

(***************************** state **************************************)
NoLocals ==
    [full_name |-> None, email |-> None, phone |-> None, first |-> None,
     already |-> None, msg |-> None]

Terminal == {"RESPONDED", "UNAUTHORIZED", "BAD_PAYLOAD", "IGNORED", "FAILED"}

\* the invocations of one run: a single delivery
Single == {1}

\* one webhook request, not yet delivered; the secret is fixed at start-up
Init ==
    /\ settings \in [ZAPSIGN_HMAC_SECRET : Secrets]
    /\ pc       = [i \in Single |-> "idle"]
    /\ request  = [i \in Single |-> None]
    /\ accepted = [i \in Single |-> None]
    /\ data     = [i \in Single |-> None]
    /\ frame    = [i \in Single |-> NoLocals]
    /\ calls    = [i \in Single |-> <<>>]
    /\ raised   = [i \in Single |-> None]
    /\ response = [i \in Single |-> None]

\* an HTTP response ends the invocation
Respond(i, state, code, detail) ==
    /\ pc' = [pc EXCEPT ![i] = state]
    /\ response' = [response EXCEPT ![i] =
                       Some([status_code |-> code, detail |-> detail])]

\* an exception nobody catches: the framework answers 500
Fail(i, exc) ==
    /\ raised' = [raised EXCEPT ![i] = Some(exc)]
    /\ Respond(i, "FAILED", 500, "Internal Server Error")

\* a call handed to httpx, its reply still outstanding
Call(op, json) == [op |-> op, json |-> json, reply |-> None]

Issue(i, c) == calls' = [calls EXCEPT ![i] = Append(@, c)]

\* the reply to the call in flight arrives
Reply(cs, reply) == [cs EXCEPT ![Len(cs)].reply = Some(reply)]

InFlight(i) == { k \in DOMAIN calls[i] : calls[i][k].reply.none }

(***************************** webhook ************************************)
\* POST /webhook/zapsign arrives: raw = await request.body()
webhook_receive(i) ==
    /\ pc[i] = "idle"
    /\ \E raw \in Bodies : \E header \in Headers(raw) :
          request' = [request EXCEPT ![i] = Some([raw |-> raw, header |-> header])]
    /\ pc' = [pc EXCEPT ![i] = "RECEIVED"]
    /\ UNCHANGED <<settings, accepted, data, frame, calls, raised, response>>

\* webhook_verify with the test inverted: "if verify_signature(...): raise"
webhook_verify_inverted(i) ==
    /\ pc[i] = "RECEIVED"
    /\ LET r == verify_signature(request[i].v.raw, request[i].v.header)
       IN  /\ accepted' = [accepted EXCEPT ![i] = Some(r)]
           /\ IF r.raised
              THEN Fail(i, r.exc)
              ELSE IF r.value
                   THEN /\ Respond(i, "UNAUTHORIZED", 401, "Invalid signature")
                        /\ UNCHANGED raised
                   ELSE /\ pc' = [pc EXCEPT ![i] = "VERIFIED"]
                        /\ UNCHANGED <<raised, response>>
    /\ UNCHANGED <<settings, request, data, frame, calls>>

\* 1: if not verify_signature(raw, header): raise HTTPException(401)
webhook_verify(i) ==
    /\ pc[i] = "RECEIVED"
    /\ LET r == verify_signature(request[i].v.raw, request[i].v.header)
       IN  /\ accepted' = [accepted EXCEPT ![i] = Some(r)]
           /\ IF r.raised
              THEN Fail(i, r.exc)
              ELSE IF ~r.value
                   THEN /\ Respond(i, "UNAUTHORIZED", 401, "Invalid signature")
                        /\ UNCHANGED raised
                   ELSE /\ pc' = [pc EXCEPT ![i] = "VERIFIED"]
                        /\ UNCHANGED <<raised, response>>
    /\ UNCHANGED <<settings, request, data, frame, calls>>

\* 2, 3: print(raw.decode()), then model_validate_json inside try/except
webhook_parse(i) ==
    /\ pc[i] = "VERIFIED"
    /\ LET raw == request[i].v.raw
           v   == model_validate_json(raw)
       IN  IF ~raw.utf8
           THEN Fail(i, "UnicodeDecodeError") /\ UNCHANGED data
           ELSE IF ~v.ok
                THEN /\ Respond(i, "BAD_PAYLOAD", 400, v.error)
                     /\ UNCHANGED <<data, raised>>
                ELSE /\ data' = [data EXCEPT ![i] = Some(v.value)]
                     /\ pc' = [pc EXCEPT ![i] = "PARSED"]
                     /\ UNCHANGED <<raised, response>>
    /\ UNCHANGED <<settings, request, accepted, frame, calls>>

\* webhook_check_status without the early return
webhook_check_status_noreturn(i) ==
    /\ pc[i] = "PARSED"
    /\ pc' = [pc EXCEPT ![i] = "SIGNED"]
    /\ UNCHANGED <<settings, request, accepted, data, frame, calls, raised, response>>

\* 4: if data.status != "signed": return
webhook_check_status(i) ==
    /\ pc[i] = "PARSED"
    /\ IF data[i].v.status # signed
       THEN Respond(i, "IGNORED", 204, "")
       ELSE pc' = [pc EXCEPT ![i] = "SIGNED"] /\ UNCHANGED response
    /\ UNCHANGED <<settings, request, accepted, data, frame, calls, raised>>

\* webhook_extract with first = full_name.split(" ")[0], "" for a blank name
webhook_extract_split_on_space(i) ==
    /\ pc[i] = "SIGNED"
    /\ LET signer    == data[i].v.signer_who_signed
           full_name == strip(signer.name)
           email     == lower(signer.email)
           raw_phone == signer.phone_country \o signer.phone_number
           phone     == re_sub_nondigits(raw_phone)
           words     == split(full_name)
       IN  /\ frame' = [frame EXCEPT ![i] =
                  [@ EXCEPT !.full_name = Some(full_name),
                            !.email = Some(email),
                            !.phone = Some(phone),
                            !.first = Some(IF words = <<>> THEN <<>> ELSE words[1])]]
           /\ pc' = [pc EXCEPT ![i] = "EXTRACTED"]
    /\ UNCHANGED <<settings, request, accepted, data, calls, raised, response>>

\* 5: full_name, email, phone, first = full_name.split()[0]
webhook_extract(i) ==
    /\ pc[i] = "SIGNED"
    /\ LET signer    == data[i].v.signer_who_signed
           full_name == strip(signer.name)
           email     == lower(signer.email)
           raw_phone == signer.phone_country \o signer.phone_number
           phone     == re_sub_nondigits(raw_phone)
           words     == split(full_name)
           locals    == [frame[i] EXCEPT !.full_name = Some(full_name),
                                         !.email = Some(email),
                                         !.phone = Some(phone)]
       IN  IF words = <<>>
           THEN /\ frame' = [frame EXCEPT ![i] = locals]
                /\ Fail(i, "IndexError")
           ELSE /\ frame' = [frame EXCEPT ![i] =
                                [locals EXCEPT !.first = Some(words[1])]]
                /\ pc' = [pc EXCEPT ![i] = "EXTRACTED"]
                /\ UNCHANGED <<raised, response>>
    /\ UNCHANGED <<settings, request, accepted, data, calls>>

(***************************** notion_search_student **********************)
Query(property, condition, value) ==
    [property |-> property, condition |-> condition, value |-> value]

\* both queries started together (as with asyncio.gather)
notion_search_student_both_queries(i) ==
    /\ pc[i] = "EXTRACTED"
    /\ calls' = [calls EXCEPT ![i] =
          @ \o << Call("email_query", Query("Email", "equals", frame[i].email.v)),
                  Call("name_query",
                       Query("Student Name", "contains", frame[i].first.v)) >>]
    /\ pc' = [pc EXCEPT ![i] = "AWAIT_NAME"]
    /\ UNCHANGED <<settings, request, accepted, data, frame, raised, response>>

\* q1: await cli.post(query, json=q1) is started
notion_search_student_email_query(i) ==
    /\ pc[i] = "EXTRACTED"
    /\ Issue(i, Call("email_query", Query("Email", "equals", frame[i].email.v)))
    /\ pc' = [pc EXCEPT ![i] = "AWAIT_EMAIL"]
    /\ UNCHANGED <<settings, request, accepted, data, frame, raised, response>>

\* q1 returns, but a hit does not return early: q2 is started all the same
notion_search_student_email_reply_noreturn(i) ==
    /\ pc[i] = "AWAIT_EMAIL"
    /\ \E reply \in NotionReplies :
          LET exc   == raise_for_status(reply)
              cs    == Reply(calls[i], reply)
              words == split(frame[i].full_name.v)
          IN  IF ~exc.none
              THEN /\ calls' = [calls EXCEPT ![i] = cs]
                   /\ Fail(i, exc.v)
              ELSE /\ calls' = [calls EXCEPT ![i] =
                          Append(cs, Call("name_query",
                              Query("Student Name", "contains", words[1])))]
                   /\ pc' = [pc EXCEPT ![i] = "AWAIT_NAME"]
                   /\ UNCHANGED <<raised, response>>
    /\ UNCHANGED <<settings, request, accepted, data, frame>>

\* q1 returns: raise_for_status, return True on a hit, else start q2
notion_search_student_email_reply(i) ==
    /\ pc[i] = "AWAIT_EMAIL"
    /\ \E reply \in NotionReplies :
          LET exc   == raise_for_status(reply)
              cs    == Reply(calls[i], reply)
              words == split(frame[i].full_name.v)
          IN  IF ~exc.none
              THEN /\ calls' = [calls EXCEPT ![i] = cs]
                   /\ Fail(i, exc.v)
                   /\ UNCHANGED frame
              ELSE IF reply.results # <<>>
                   THEN /\ calls' = [calls EXCEPT ![i] = cs]
                        /\ frame' = [frame EXCEPT ![i].already = Some(TRUE)]
                        /\ pc' = [pc EXCEPT ![i] = "CLASSIFIED"]
                        /\ UNCHANGED <<raised, response>>
                   ELSE IF words = <<>>
                        THEN /\ calls' = [calls EXCEPT ![i] = cs]
                             /\ Fail(i, "IndexError")
                             /\ UNCHANGED frame
                        ELSE /\ calls' = [calls EXCEPT ![i] =
                                    Append(cs, Call("name_query",
                                        Query("Student Name", "contains", words[1])))]
                             /\ pc' = [pc EXCEPT ![i] = "AWAIT_NAME"]
                             /\ UNCHANGED <<frame, raised, response>>
    /\ UNCHANGED <<settings, request, accepted, data>>

\* q2 returns bool(r.json()): true for every successful reply
notion_search_student_name_reply_anyjson(i) ==
    /\ pc[i] = "AWAIT_NAME"
    /\ \E reply \in NotionReplies :
          LET exc == raise_for_status(reply)
          IN  /\ calls' = [calls EXCEPT ![i] = Reply(@, reply)]
              /\ IF ~exc.none
                 THEN Fail(i, exc.v) /\ UNCHANGED frame
                 ELSE /\ frame' = [frame EXCEPT ![i].already = Some(TRUE)]
                      /\ pc' = [pc EXCEPT ![i] = "CLASSIFIED"]
                      /\ UNCHANGED <<raised, response>>
    /\ UNCHANGED <<settings, request, accepted, data>>

\* q2 returns: raise_for_status, return bool(results)
notion_search_student_name_reply(i) ==
    /\ pc[i] = "AWAIT_NAME"
    /\ \E reply \in NotionReplies :
          LET exc == raise_for_status(reply)
          IN  /\ calls' = [calls EXCEPT ![i] = Reply(@, reply)]
              /\ IF ~exc.none
                 THEN Fail(i, exc.v) /\ UNCHANGED frame
                 ELSE /\ frame' = [frame EXCEPT ![i].already =
                                      Some(reply.results # <<>>)]
                      /\ pc' = [pc EXCEPT ![i] = "CLASSIFIED"]
                      /\ UNCHANGED <<raised, response>>
    /\ UNCHANGED <<settings, request, accepted, data>>

(***************************** message and send ***************************)
\* 6: already = <result>; the message is built from one of two templates
webhook_compose(i) ==
    /\ pc[i] = "CLASSIFIED"
    /\ LET first == frame[i].first.v
       IN  IF frame[i].already.v
           THEN /\ frame' = [frame EXCEPT ![i].msg = Some(existing_msg(first))]
                /\ pc' = [pc EXCEPT ![i] = "COMPOSED"]
                /\ UNCHANGED <<raised, response>>
           ELSE IF data[i].v.answers.none
                THEN Fail(i, "TypeError") /\ UNCHANGED frame
                ELSE LET answers    == answers_dict(data[i].v.answers.v)
                         nome_filho == dict_get(answers, nome_completo, sua_filha)
                     IN  /\ frame' = [frame EXCEPT ![i].msg =
                               Some(welcome_msg(first, nome_filho, frame[i].email.v))]
                         /\ pc' = [pc EXCEPT ![i] = "COMPOSED"]
                         /\ UNCHANGED <<raised, response>>
    /\ UNCHANGED <<settings, request, accepted, data, calls>>

\* 7: send_whatsapp(phone, msg) strips non-digits and starts the POST
send_whatsapp(i) ==
    /\ pc[i] = "COMPOSED"
    /\ LET phone_digits == re_sub_nondigits(frame[i].phone.v)
       IN  Issue(i, Call("send", [phone |-> phone_digits, message |-> frame[i].msg.v]))
    /\ pc' = [pc EXCEPT ![i] = "AWAIT_SEND"]
    /\ UNCHANGED <<settings, request, accepted, data, frame, raised, response>>

\* the POST returns; a failed first attempt is sent once more
send_whatsapp_reply_retry(i) ==
    /\ pc[i] = "AWAIT_SEND"
    /\ \E reply \in ZapiReplies :
          LET exc   == raise_for_status(reply)
              cs    == Reply(calls[i], reply)
              first == \A k \in 1..(Len(cs) - 1) : cs[k].op # "send"
          IN  IF ~exc.none /\ first
              THEN /\ calls' = [calls EXCEPT ![i] =
                          Append(cs, Call("send", cs[Len(cs)].json))]
                   /\ UNCHANGED <<pc, raised, response>>
              ELSE /\ calls' = [calls EXCEPT ![i] = cs]
                   /\ IF ~exc.none
                      THEN Fail(i, exc.v)
                      ELSE Respond(i, "RESPONDED", 204, "") /\ UNCHANGED raised
    /\ UNCHANGED <<settings, request, accepted, data, frame>>

\* the POST returns; after a failure the send is started over, without end
send_whatsapp_reply_retry_forever(i) ==
    /\ pc[i] = "AWAIT_SEND"
    /\ \E reply \in ZapiReplies :
          LET exc == raise_for_status(reply)
          IN  IF ~exc.none
              THEN /\ calls' = [calls EXCEPT ![i] = SubSeq(@, 1, Len(@) - 1)]
                   /\ pc' = [pc EXCEPT ![i] = "COMPOSED"]
                   /\ UNCHANGED <<raised, response>>
              ELSE /\ calls' = [calls EXCEPT ![i] = Reply(@, reply)]
                   /\ Respond(i, "RESPONDED", 204, "")
                   /\ UNCHANGED raised
    /\ UNCHANGED <<settings, request, accepted, data, frame>>

\* the POST returns: raise_for_status, then the handler returns (204)
send_whatsapp_reply(i) ==
    /\ pc[i] = "AWAIT_SEND"
    /\ \E reply \in ZapiReplies :
          LET exc == raise_for_status(reply)
          IN  /\ calls' = [calls EXCEPT ![i] = Reply(@, reply)]
              /\ IF ~exc.none
                 THEN Fail(i, exc.v)
                 ELSE Respond(i, "RESPONDED", 204, "") /\ UNCHANGED raised
    /\ UNCHANGED <<settings, request, accepted, data, frame>>

Next ==
    \/ \E i \in Single : webhook_receive(i)
    \/ \E i \in Single : webhook_verify(i)
    \/ \E i \in Single : webhook_parse(i)
    \/ \E i \in Single : webhook_check_status(i)
    \/ \E i \in Single : webhook_extract(i)
    \/ \E i \in Single : notion_search_student_email_query(i)
    \/ \E i \in Single : notion_search_student_email_reply(i)
    \/ \E i \in Single : notion_search_student_name_reply(i)
    \/ \E i \in Single : webhook_compose(i)
    \/ \E i \in Single : send_whatsapp(i)
    \/ \E i \in Single : send_whatsapp_reply(i)

Spec == Init /\ [][Next]_vars

\* the payloads the provider delivers, possibly more than once, unsigned
RepeatedBodies ==
    { [utf8 |-> TRUE, syntax |-> "json",
       doc |-> PayloadDoc(signed, SampleSigner, a)] :
        a \in { [present |-> FALSE], [present |-> TRUE, doc |-> JNull] } }

Deliveries == 1..NumDeliveries

\* several deliveries, none received yet; no secret is configured
InitConc ==
    /\ settings = [ZAPSIGN_HMAC_SECRET |-> None]
    /\ pc       = [i \in Deliveries |-> "idle"]
    /\ request  = [i \in Deliveries |-> None]
    /\ accepted = [i \in Deliveries |-> None]
    /\ data     = [i \in Deliveries |-> None]
    /\ frame    = [i \in Deliveries |-> NoLocals]
    /\ calls    = [i \in Deliveries |-> <<>>]
    /\ raised   = [i \in Deliveries |-> None]
    /\ response = [i \in Deliveries |-> None]

\* POST /webhook/zapsign arrives with one of the repeated payloads
webhook_receive_repeated(i) ==
    /\ pc[i] = "idle"
    /\ \E raw \in RepeatedBodies :
          request' = [request EXCEPT ![i] = Some([raw |-> raw, header |-> None])]
    /\ pc' = [pc EXCEPT ![i] = "RECEIVED"]
    /\ UNCHANGED <<settings, accepted, data, frame, calls, raised, response>>

\* the handlers of the deliveries interleave at every step
NextConc ==
    \/ \E i \in Deliveries : webhook_receive_repeated(i)
    \/ \E i \in Deliveries : webhook_verify(i)
    \/ \E i \in Deliveries : webhook_parse(i)
    \/ \E i \in Deliveries : webhook_check_status(i)
    \/ \E i \in Deliveries : webhook_extract(i)
    \/ \E i \in Deliveries : notion_search_student_email_query(i)
    \/ \E i \in Deliveries : notion_search_student_email_reply(i)
    \/ \E i \in Deliveries : notion_search_student_name_reply(i)
    \/ \E i \in Deliveries : webhook_compose(i)
    \/ \E i \in Deliveries : send_whatsapp(i)
    \/ \E i \in Deliveries : send_whatsapp_reply(i)

SpecConc == InitConc /\ [][NextConc]_vars

\* what a delivered request does next: the handler's own steps, which the
\* event loop runs, and the returns of its calls, which answer or time out
Step(i) ==
    \/ webhook_verify(i)
    \/ webhook_parse(i)
    \/ webhook_check_status(i)
    \/ webhook_extract(i)
    \/ notion_search_student_email_query(i)
    \/ notion_search_student_email_reply(i)
    \/ notion_search_student_name_reply(i)
    \/ webhook_compose(i)
    \/ send_whatsapp(i)
    \/ send_whatsapp_reply(i)

\* a started handler is never left behind, and every call returns
SpecLive == Init /\ [][Next]_vars /\ \A i \in Single : WF_vars(Step(i))

(***************************** properties *********************************)
Accepted(i) == ~accepted[i].none /\ ~accepted[i].v.raised /\ accepted[i].v.value

Rejected(i) == ~accepted[i].none /\ ~accepted[i].v.raised /\ ~accepted[i].v.value

StatusCode(i) == response[i].v.status_code

Ops(i) == [k \in DOMAIN calls[i] |-> calls[i][k].op]

\* C1: an outbound call is issued only after the signature was accepted, the
\* body parsed into a WebhookPayload and its status is "signed"; an
\* invocation that ended UNAUTHORIZED, BAD_PAYLOAD or IGNORED made no
\* outbound call, and the IGNORED one answered 204 with an empty body.
C1_CallsOnlyAfterSigned ==
    \A i \in DOMAIN pc :
        /\ calls[i] # <<>> =>
              /\ Accepted(i)
              /\ ~data[i].none
              /\ data[i].v.status = signed
        /\ pc[i] \in {"UNAUTHORIZED", "BAD_PAYLOAD", "IGNORED"} => calls[i] = <<>>
        /\ pc[i] = "IGNORED" =>
              /\ data[i].v.status # signed
              /\ response[i] = Some([status_code |-> 204, detail |-> ""])

C1_Witness ==
    \E i \in DOMAIN pc :
        /\ pc[i] = "IGNORED"
        /\ Accepted(i)
        /\ data[i].v.status = pending
        /\ calls[i] = <<>>
        /\ StatusCode(i) = 204

Secret == settings.ZAPSIGN_HMAC_SECRET

Raw(i) == request[i].v.raw

Header(i) == request[i].v.header

\* the signature a sender holding the configured secret computes for Raw(i)
Expected(i) == hexdigest(hmac_new(Secret.v, Raw(i)))

C4_ExitsOrdered ==
    \A i \in DOMAIN pc :
        /\ Rejected(i) =>
              /\ pc[i] = "UNAUTHORIZED"
              /\ StatusCode(i) = 401
              /\ data[i].none
        /\ (/\ Accepted(i)
            /\ pc[i] \notin {"RECEIVED", "VERIFIED"}
            /\ ~model_validate_json(Raw(i)).ok)
           => (pc[i] = "BAD_PAYLOAD" /\ StatusCode(i) = 400)
        /\ (~response[i].none /\ StatusCode(i) = 400) => Accepted(i)

Replied(c) == ~c.reply.none

\* the call was answered with a success status (2xx)
Succeeded(c) ==
    /\ Replied(c)
    /\ c.reply.v.kind = "response"
    /\ c.reply.v.status_code \in 200..299

\* the call was answered with a non-success status or timed out
Failed(c) == Replied(c) /\ ~Succeeded(c)

Positions(i, op) == { k \in DOMAIN calls[i] : calls[i][k].op = op }

\* C5: the name-substring query is issued only after the email-exact query
\* returned successfully with an empty result list; after a non-empty
\* email result it is never issued.
C5_ShortCircuit ==
    \A i \in DOMAIN pc :
        /\ \A k \in Positions(i, "name_query") :
              /\ k = 2
              /\ calls[i][1].op = "email_query"
              /\ Succeeded(calls[i][1])
              /\ calls[i][1].reply.v.results = <<>>
        /\ \A k \in Positions(i, "email_query") :
              (Succeeded(calls[i][k]) /\ calls[i][k].reply.v.results # <<>>)
              => Positions(i, "name_query") = {}

C5_Witness ==
    \E i \in DOMAIN pc :
        /\ pc[i] = "RESPONDED"
        /\ Ops(i) = <<"email_query", "send">>
        /\ Len(calls[i][1].reply.v.results) = MaxResults

\* C6: once an outbound call has failed (non-success status or timeout) the
\* invocation issues no further call and ends FAILED with a server error; a
\* failed query leaves the classification undecided and nothing is sent.
C6_FailureAborts ==
    \A i \in DOMAIN pc : \A k \in DOMAIN calls[i] :
        Failed(calls[i][k]) =>
            /\ k = Len(calls[i])
            /\ pc[i] = "FAILED"
            /\ StatusCode(i) = 500
            /\ ~raised[i].none
            /\ calls[i][k].op \in {"email_query", "name_query"} =>
                  /\ frame[i].already.none
                  /\ frame[i].msg.none
                  /\ Positions(i, "send") = {}

C6_Witness ==
    \E i \in DOMAIN pc :
        /\ Ops(i) = <<"email_query", "name_query">>
        /\ calls[i][2].reply = Some(Timeout)
        /\ pc[i] = "FAILED"

\* C7: within one invocation each of the two queries and the send is issued
\* at most once, in that order, whatever the replies: at most three calls.
C7_NoRetries ==
    \A i \in DOMAIN pc :
        /\ \A op \in {"email_query", "name_query", "send"} :
              Cardinality(Positions(i, op)) <= 1
        /\ Len(calls[i]) <= 3
        /\ \A j, k \in DOMAIN calls[i] :
              j < k => \/ calls[i][j].op = "email_query" /\ calls[i][k].op # "email_query"
                       \/ calls[i][j].op = "name_query" /\ calls[i][k].op = "send"

C7_Witness ==
    \E i \in DOMAIN pc :
        /\ Ops(i) = <<"email_query", "name_query", "send">>
        /\ Failed(calls[i][3])
        /\ pc[i] = "FAILED"

\* C8: an invocation has at most one outbound call in flight; the name query
\* starts only after the email query has completed, and the send starts only
\* after every query has completed and the classification has a result.
C8_OneAtATime ==
    \A i \in DOMAIN pc :
        /\ Cardinality(InFlight(i)) <= 1
        /\ \A k \in Positions(i, "name_query") :
              \E j \in Positions(i, "email_query") : j < k /\ Replied(calls[i][j])
        /\ \A k \in Positions(i, "send") :
              /\ \A j \in 1..(k - 1) : Succeeded(calls[i][j])
              /\ Positions(i, "email_query") # {}
              /\ ~frame[i].already.none

C8_Witness ==
    \E i \in DOMAIN pc :
        /\ pc[i] = "AWAIT_SEND"
        /\ Ops(i) = <<"email_query", "name_query", "send">>
        /\ InFlight(i) = {3}

Sent(i) == calls[i][CHOOSE k \in Positions(i, "send") : TRUE].json

\* C9 as stated: for a valid payload with status "signed", an accepted
\* signature and successful queries, the Notifier is called exactly once,
\* with the template the classification selects, and a successful send is
\* answered 204.
C9_NotifiedOnce ==
    \A i \in DOMAIN pc :
        (/\ pc[i] \in Terminal
         /\ Accepted(i)
         /\ ~data[i].none
         /\ data[i].v.status = signed
         /\ calls[i] # <<>>
         /\ \A k \in Positions(i, "email_query") \cup Positions(i, "name_query") :
                Succeeded(calls[i][k]))
        => /\ Cardinality(Positions(i, "send")) = 1
           /\ ~frame[i].already.none
           /\ Sent(i).message[1] =
                 IF frame[i].already.v THEN Lit("Ola ") ELSE Lit("Welcome ")
           /\ Sent(i).message[2] = Txt(frame[i].first.v)
           /\ \A k \in Positions(i, "send") :
                 Succeeded(calls[i][k]) => (pc[i] = "RESPONDED" /\ StatusCode(i) = 204)

FoundByEmail(i) ==
    \E k \in Positions(i, "email_query") :
        Succeeded(calls[i][k]) /\ calls[i][k].reply.v.results # <<>>

FoundByName(i) ==
    \E k \in Positions(i, "name_query") :
        Succeeded(calls[i][k]) /\ calls[i][k].reply.v.results # <<>>

\* the queries issued so far have all returned successfully, and the search
\* has nothing left to ask
SearchDone(i) ==
    /\ Positions(i, "email_query") # {}
    /\ \A k \in Positions(i, "email_query") \cup Positions(i, "name_query") :
          Succeeded(calls[i][k])
    /\ FoundByEmail(i) \/ Positions(i, "name_query") # {}

\* C10: when the queries it issues succeed, notion_search_student returns
\* true exactly when the email query found a result, or it found none and the
\* name query found one; it returns false otherwise.
C10_ClassifierDecision ==
    \A i \in DOMAIN pc :
        /\ SearchDone(i) <=> ~frame[i].already.none
        /\ ~frame[i].already.none =>
              frame[i].already.v =
                  (FoundByEmail(i) \/ (~FoundByEmail(i) /\ FoundByName(i)))

C10_Witness ==
    \E i \in DOMAIN pc :
        /\ ~frame[i].already.none
        /\ frame[i].already.v
        /\ ~FoundByEmail(i)
        /\ FoundByName(i)

IsNomeCompleto(a) == lower(a.variable) = nome_completo

\* the dependent's name the new-student message must carry for these answers
NomeFilho(answers) ==
    IF \E j \in DOMAIN answers : IsNomeCompleto(answers[j])
    THEN LET j == CHOOSE j \in DOMAIN answers :
                     /\ IsNomeCompleto(answers[j])
                     /\ \A m \in DOMAIN answers : IsNomeCompleto(answers[m]) => m <= j
         IN  answers[j].value
    ELSE sua_filha

\* C11: in the new-student message the dependent's name is the value of the
\* (last) answer whose key equals "nome completo" ignoring case, substituted
\* verbatim, and the placeholder "sua filha" is used exactly when no answer
\* has such a key; the message is determined by the classification, the
\* first name, the lowercased email and the answers.
C11_ComposerMessage ==
    \A i \in DOMAIN pc :
        ~frame[i].msg.none =>
            LET first == frame[i].first.v
                email == lower(data[i].v.signer_who_signed.email)
                msg   == frame[i].msg.v
            IN  IF frame[i].already.v
                THEN msg = << Lit("Ola "), Txt(first), msg[3] >> /\ Len(msg) = 3
                ELSE /\ Len(msg) = 7
                     /\ msg[1] = Lit("Welcome ")
                     /\ msg[2] = Txt(first)
                     /\ msg[4] = Txt(NomeFilho(data[i].v.answers.v))
                     /\ msg[6] = Txt(email)
                     /\ \A k \in {1, 3, 5, 7} : DOMAIN msg[k] = {"lit"}
                     /\ (msg[4] = Txt(sua_filha)) <=>
                           \A j \in DOMAIN data[i].v.answers.v :
                               ~IsNomeCompleto(data[i].v.answers.v[j])

\* a key written "Nome completo" after one written "nome completo": the last
C11_Witness ==
    \E i \in DOMAIN pc :
        /\ ~frame[i].msg.none
        /\ ~frame[i].already.v
        /\ Len(data[i].v.answers.v) = 3
        /\ frame[i].msg.v[4] = Txt(<<"E", "v", "a">>)

IsDecimalDigit(c) == c \in DecimalDigits

Blank(text) == \A k \in DOMAIN text : text[k] \in Whitespace

\* C15: a valid payload with status "signed" whose signer name is empty or
\* all whitespace is not rejected as BAD_PAYLOAD; the handler fails taking
\* the first name (IndexError), before classification: it answers with a
\* server error having issued no database query and no send.
C15_BlankNameFails ==
    \A i \in DOMAIN pc :
        (/\ ~data[i].none
         /\ data[i].v.status = signed
         /\ Blank(data[i].v.signer_who_signed.name)
         /\ pc[i] \notin {"PARSED", "SIGNED"})
        => /\ pc[i] = "FAILED"
           /\ raised[i] = Some("IndexError")
           /\ StatusCode(i) = 500
           /\ calls[i] = <<>>
           /\ frame[i].first.none
           /\ frame[i].already.none

C15_Witness ==
    \E i \in DOMAIN pc :
        /\ pc[i] = "FAILED"
        /\ ~data[i].none
        /\ data[i].v.signer_who_signed.name = <<" ", "\n">>
        /\ raised[i] = Some("IndexError")
        /\ calls[i] = <<>>

\* the request body is JSON whose "answers" member is null
AnswersNull(i) ==
    /\ Raw(i).utf8
    /\ Raw(i).syntax = "json"
    /\ Has(Raw(i).doc, "answers")
    /\ Raw(i).doc.v["answers"].t = "null"

\* C16: a payload whose "answers" is null parses, with answers None rather
\* than an empty list; when its status is "signed" and the signer is
\* classified new, the handler fails building the answer mapping (TypeError)
\* after the queries and before any send, and answers with a server error;
\* when the signer is classified existing, answers is not read and the
\* message is sent.
C16_NullAnswers ==
    \A i \in DOMAIN pc :
        (~data[i].none /\ AnswersNull(i)) =>
            /\ data[i].v.answers = None
            /\ (/\ ~frame[i].already.none
                /\ ~frame[i].already.v
                /\ pc[i] # "CLASSIFIED")
               => /\ pc[i] = "FAILED"
                  /\ raised[i] = Some("TypeError")
                  /\ StatusCode(i) = 500
                  /\ Ops(i) = <<"email_query", "name_query">>
                  /\ frame[i].msg.none
            /\ (/\ ~frame[i].already.none
                /\ frame[i].already.v
                /\ pc[i] \notin {"CLASSIFIED", "COMPOSED"})
               => /\ Cardinality(Positions(i, "send")) = 1
                  /\ Sent(i).message = frame[i].msg.v
                  /\ Sent(i).message[1] = Lit("Ola ")
                  /\ raised[i] # Some("TypeError")

C16_Witness ==
    \E i \in DOMAIN pc :
        /\ ~data[i].none
        /\ AnswersNull(i)
        /\ pc[i] = "FAILED"
        /\ raised[i] = Some("TypeError")
        /\ Ops(i) = <<"email_query", "name_query">>

\* C13: provided every outbound call returns or times out, a started
\* invocation reaches a terminal outcome (RESPONDED, UNAUTHORIZED,
\* BAD_PAYLOAD, IGNORED or FAILED); it has answered exactly when it is
\* terminal, and from then on its outcome, its calls and its response stay
\* as they are.
C13_RunsToCompletion ==
    /\ \A i \in Single : (pc[i] # "idle") ~> (pc[i] \in Terminal)
    /\ [](\A i \in Single : (pc[i] \in Terminal) <=> ~response[i].none)
    /\ [][\A i \in Single :
            pc[i] \in Terminal =>
                /\ pc'[i] = pc[i]
                /\ calls'[i] = calls[i]
                /\ response'[i] = response[i]]_vars

C13_Witness ==
    \E i \in DOMAIN pc :
        /\ pc[i] = "FAILED"
        /\ raised[i] = Some("TimeoutException")
        /\ Ops(i) = <<"email_query", "name_query", "send">>

Replies(i) == [k \in DOMAIN calls[i] |-> calls[i][k].reply]

\* everything an invocation did and answered
Outcome(i) ==
    [pc |-> pc[i], accepted |-> accepted[i], data |-> data[i], frame |-> frame[i],
     calls |-> calls[i], raised |-> raised[i], response |-> response[i]]

\* C14 as stated: under every interleaving, what a finished invocation did
\* and answered depends only on its own request and the replies to its own
\* calls, whatever became of the others; and when the same signed payload is
\* delivered N times and every call succeeds, exactly N messages are sent.
C14_IndependentDeliveries ==
    /\ \A i, j \in DOMAIN pc :
          (/\ pc[i] \in Terminal
           /\ pc[j] \in Terminal
           /\ request[i] = request[j]
           /\ Replies(i) = Replies(j))
          => Outcome(i) = Outcome(j)
    /\ (/\ \A i \in DOMAIN pc :
              /\ pc[i] \in Terminal
              /\ ~data[i].none
              /\ data[i].v.status = signed
              /\ calls[i] # <<>>
              /\ \A k \in DOMAIN calls[i] : Succeeded(calls[i][k])
        /\ \A i, j \in DOMAIN pc : request[i] = request[j])
       => \A i \in DOMAIN pc : Cardinality(Positions(i, "send")) = 1

====
